---- MODULE Spec2Model ----
(***************************************************************************)
(* Model of src/sftp.rs: AsyncSftp (the session adapter) and AsyncFile     *)
(* (the handle adapter) driving the blocking ssh2 Sftp / File handles      *)
(* through one shared Arc<Async<S>> reactor handle.                        *)
(*                                                                         *)
(* A task runs one operation at a time.  A poll of an operation is split   *)
(* in the steps the reactor thread can interleave with:                    *)
(*   call      the closure is invoked (one blocking call attempt)          *)
(*   register  after a would-block, the readiness future stores the task's *)
(*             waker with the reactor                                      *)
(*   return    the poll returns Pending to the executor; for AsyncFile the *)
(*             readiness future is a temporary of poll_once and is dropped *)
(***************************************************************************)
EXTENDS Integers, FiniteSets, Sequences, TLC

\* ---------------------------------------------------------------- bounds
MaxWouldBlock == 1
MaxHandles == 2
MaxBuf == 1
Tasks == {1, 2}
Handles == 1..MaxHandles
BufLens == 1..MaxBuf

\* ------------------------------------------------------------ vocabulary
Dirs == {"read", "write"}

OpenOps == {"open_mode", "open", "create", "opendir"}

PlainOps == {"readdir", "mkdir", "rmdir", "stat", "lstat", "setstat",
             "symlink", "readlink", "realpath", "rename", "unlink"}

SessionOps == OpenOps \cup PlainOps

HandleOps == {"read", "write", "flush", "close"}

\* What each caller may invoke: caller 1 every operation of both adapters,
\* the concurrent caller 2 one operation of each adapter.
OpsOf(t) ==
    IF t = 1 THEN SessionOps \cup HandleOps ELSE {"open", "read"}

\* The session adapter is target 0; handle adapter h is target h.
SessionTarget == 0

None == [tag |-> "none"]

Ok(v) == [tag |-> "ok", val |-> v]

Err(e) == [tag |-> "err", err |-> e]

NoOp == [kind |-> "none", target |-> SessionTarget]

\* ------------------------------------------------------ ssh2 error values
\* ssh2::Error carries a libssh2 code and a message.
Ssh2Codes == {"EAGAIN", "TIMEOUT", "FX_PERMISSION_DENIED"}

Ssh2Error(c) == [code |-> c, msg |-> c]

\* io::ErrorKind chosen by ssh2's From<ssh2::Error> for io::Error.
KindOfCode(c) ==
    CASE c = "EAGAIN" -> "WouldBlock"
      [] c = "TIMEOUT" -> "TimedOut"
      [] OTHER -> "Other"

\* err.into(): the io::Error built from an ssh2::Error (kind from the code,
\* message kept, code dropped).
IntoIoError(e) == [kind |-> KindOfCode(e.code), msg |-> e.msg]

\* Mutant: the error is dropped and the call reported as done.
MapErrSwallow(raw) ==
    IF raw.tag = "err" THEN Ok([reply |-> "none", file |-> 1]) ELSE raw

\* Mutant: every error becomes an io::Error of kind Other, EAGAIN included.
MapErrOther(raw) ==
    IF raw.tag = "err" THEN Err([kind |-> "Other", msg |-> raw.err.msg]) ELSE raw

\* .map_err(|err| err.into()) on the blocking call's Result.
MapErr(raw) == IF raw.tag = "err" THEN Err(IntoIoError(raw.err)) ELSE raw

IoErrors == {IntoIoError(Ssh2Error(c)) : c \in Ssh2Codes}

\* The error the reactor's readiness future can resolve with.
ReactorError == [kind |-> "Other", msg |-> "reactor"]

\* ------------------------------------------------------------------ state
VARIABLES
    pc,         \* per task: idle, created, registering, returning, suspended, done,
                \* cancelled
    op,         \* per task: the operation in flight [kind, target]
    woken,      \* per task: who invoked its waker since the last poll ("no": nobody)
    wakers,     \* reactor: per direction and task, the wakers registered
    files,      \* the live AsyncFile adapters
    result,     \* per task: what the operation resolved with
    lastRaw,    \* per task: what the last blocking call attempt returned
    calls,      \* per task: blocking call attempts of this invocation
    wb,         \* per task: would-block results of this invocation
    susp,       \* per task: polls of this invocation that returned Pending
    resumes,    \* per task: polls of this invocation made after a Pending
    pollCalls,  \* per task: blocking call attempts made by the current poll
    pollBuf,    \* per task: length of the buffer handed to the current poll
    callBuf,    \* per task: length of the buffer handed to the blocking call
    inner,      \* the ssh2 File handles that are open (not released yet)
    sftp,       \* whether the AsyncSftp adapter is alive
    strong,     \* the strong count of the Arc<Async<S>>
    asyncIo,    \* the Async<S> behind the Arc: alive or released
    lastCall,   \* per task: method and arguments of the last Sftp call attempt
    outbox,     \* per adapter: the bytes its caller has still to write
    sink,       \* per adapter: the bytes the File has accepted
    source,     \* per adapter: the bytes the File has still to yield
    inbox       \* per adapter: the bytes its caller has read

vars == <<pc, op, woken, wakers, files, result, lastRaw, calls, wb,
          susp, resumes, pollCalls, pollBuf, callBuf,
          inner, sftp, strong, asyncIo, lastCall, outbox, sink, source, inbox>>

counters == <<calls, wb, susp, resumes, pollCalls, pollBuf, callBuf>>

\* The fields of the adapters and what they own.
adapters == <<inner, sftp, strong, asyncIo>>

\* The byte streams through the adapters.
streams == <<outbox, sink, source, inbox>>

NoCall == [method |-> "none", args |-> <<>>]

NoBytes == [h \in Handles |-> <<>>]

\* What only the operations named in an action touch.
others == <<inner, sftp, strong, asyncIo, lastCall, outbox, sink, source, inbox>>

Init ==
    /\ pc = [t \in Tasks |-> "idle"]
    /\ op = [t \in Tasks |-> NoOp]
    /\ woken = [t \in Tasks |-> "no"]
    /\ wakers = [d \in Dirs |-> [t \in Tasks |-> 0]]
    /\ files = {}
    /\ result = [t \in Tasks |-> None]
    /\ lastRaw = [t \in Tasks |-> None]
    /\ calls = [t \in Tasks |-> 0]
    /\ wb = [t \in Tasks |-> 0]
    /\ susp = [t \in Tasks |-> 0]
    /\ resumes = [t \in Tasks |-> 0]
    /\ pollCalls = [t \in Tasks |-> 0]
    /\ pollBuf = [t \in Tasks |-> 0]
    /\ callBuf = [t \in Tasks |-> 0]
    /\ inner = {}
    /\ sftp = TRUE
    /\ strong = 1
    /\ asyncIo = "alive"
    /\ lastCall = [t \in Tasks |-> NoCall]
    /\ outbox = NoBytes
    /\ sink = NoBytes
    /\ source = NoBytes
    /\ inbox = NoBytes

\* ---------------------------------------------------------------- helpers
InFlight(t) == pc[t] \notin {"idle", "done", "cancelled"}

IsSessionOp(t) == op[t].kind \in SessionOps

IsHandleOp(t) == op[t].kind \in HandleOps

\* Mutant: every operation goes through write_with.
DirOfWrite(kind) == "write"

\* read_with for poll_read, write_with for everything else.
DirOf(kind) == IF kind = "read" THEN "read" ELSE "write"

\* The tasks whose operation holds the &mut borrow of AsyncFile h.
InFlightOn(h) == {t \in Tasks : InFlight(t) /\ IsHandleOp(t) /\ op[t].target = h}

\* Mutant: the adapter could be borrowed by several operations at once.
SharedBorrow(h) == TRUE

\* self: Pin<&mut Self>: a handle operation needs the adapter exclusively.
ExclusiveBorrow(h) == InFlightOn(h) = {}

\* The open-family operations that have not resolved yet.
OpensInFlight == {t \in Tasks : InFlight(t) /\ op[t].kind \in OpenOps}

\* The slot the next File returned by the blocking open occupies.
FreshFile == CHOOSE h \in Handles \ files : \A g \in Handles \ files : h <= g

\* write_with / read_with: the closure's result ends the future unless it is
\* an error of kind WouldBlock.
IsWouldBlock(res) == res.tag = "err" /\ res.err.kind = "WouldBlock"

\* The readiness future stores the task's waker in the reactor's slab.
AddWaker(w, d, t) == [w EXCEPT ![d][t] = @ + 1]

\* Dropping a readiness future removes the waker it stored, if still there.
RemoveWaker(w, d, t) == [w EXCEPT ![d][t] = IF @ > 0 THEN @ - 1 ELSE 0]

\* ------------------------------------------------------- the Arc<Async<S>>
\* Mutant: the new adapter takes the Arc without counting itself.
ArcCloneUncounted(n) == n

\* self.async_io.clone(): one more holder.
ArcClone(n) == n + 1

\* Drop of a holder's Arc.
ArcDrop(n) == n - 1

\* The Async<S> is released by the drop that takes the count to zero.
AfterDrop(n, a) == IF n = 0 THEN "released" ELSE a

\* ------------------------------------------------- arguments and forwarding
Path(name) == [path |-> name]

Val(name) == [val |-> name]

\* An ssh2::FileStat.
FileStat == [size |-> 10, uid |-> 20, gid |-> 30, perm |-> 40, atime |-> 50, mtime |-> 60]

\* stat.clone(): the derived Clone copies field by field.
Clone(stat) == [f \in DOMAIN stat |-> stat[f]]

\* The arguments a caller passes to each async fn of AsyncSftp, in the order
\* of its signature; every parameter has a value of its own.
CallerArgs(kind) ==
    CASE kind = "open_mode" ->
             <<Path("filename"), Val("flags"), Val("mode"), Val("open_type")>>
      [] kind \in {"open", "create", "rmdir", "stat", "lstat"} -> <<Path("filename")>>
      [] kind \in {"opendir", "readdir"} -> <<Path("dirname")>>
      [] kind = "mkdir" -> <<Path("filename"), Val("mode")>>
      [] kind = "setstat" -> <<Path("filename"), FileStat>>
      [] kind = "symlink" -> <<Path("path"), Path("target")>>
      [] kind \in {"readlink", "realpath"} -> <<Path("path")>>
      [] kind = "rename" -> <<Path("src"), Path("dst"), Val("flags")>>
      [] kind = "unlink" -> <<Path("file")>>

\* Mutant: stat follows no symlink (it calls lstat) and symlink takes its
\* paths the other way round.
ForwardCrossed(kind, a) ==
    CASE kind = "stat" -> [method |-> "lstat", args |-> <<a[1]>>]
      [] kind = "symlink" -> [method |-> "symlink", args |-> <<a[2], a[1]>>]
      [] OTHER -> [method |-> kind, args |-> a]

\* The call of ssh2::Sftp each closure makes with the arguments `a` of the
\* async fn `kind`.
Forward(kind, a) ==
    CASE kind = "open_mode" -> [method |-> "open_mode", args |-> <<a[1], a[2], a[3], a[4]>>]
      [] kind = "open" -> [method |-> "open", args |-> <<a[1]>>]
      [] kind = "create" -> [method |-> "create", args |-> <<a[1]>>]
      [] kind = "opendir" -> [method |-> "opendir", args |-> <<a[1]>>]
      [] kind = "readdir" -> [method |-> "readdir", args |-> <<a[1]>>]
      [] kind = "mkdir" -> [method |-> "mkdir", args |-> <<a[1], a[2]>>]
      [] kind = "rmdir" -> [method |-> "rmdir", args |-> <<a[1]>>]
      [] kind = "stat" -> [method |-> "stat", args |-> <<a[1]>>]
      [] kind = "lstat" -> [method |-> "lstat", args |-> <<a[1]>>]
      [] kind = "setstat" -> [method |-> "setstat", args |-> <<a[1], Clone(a[2])>>]
      [] kind = "symlink" -> [method |-> "symlink", args |-> <<a[1], a[2]>>]
      [] kind = "readlink" -> [method |-> "readlink", args |-> <<a[1]>>]
      [] kind = "realpath" -> [method |-> "realpath", args |-> <<a[1]>>]
      [] kind = "rename" -> [method |-> "rename", args |-> <<a[1], a[2], a[3]>>]
      [] kind = "unlink" -> [method |-> "unlink", args |-> <<a[1]>>]

\* ------------------------------------------------------------ byte streams
Min(a, b) == IF a <= b THEN a ELSE b

\* The first n elements of s, and s without them.
Take(s, n) == SubSeq(s, 1, Min(n, Len(s)))

DropN(s, n) == SubSeq(s, Min(n, Len(s)) + 1, Len(s))

\* The content one transfer moves: one byte more than the largest buffer of
\* BufLens, so that short counts happen.
Content == [i \in 1..(MaxBuf + 1) |-> i]

\* The adapters whose bytes are followed.
Observed(h) == Len(outbox[h]) + Len(sink[h]) + Len(source[h]) + Len(inbox[h]) > 0

\* The buffers a caller passes to poll_write / poll_read: a caller whose
\* bytes are followed passes what is left to transfer.
WriteLens(h) == IF Observed(h) THEN {Len(outbox[h])} ELSE BufLens

ReadLens(h) == IF Observed(h) THEN {Len(source[h])} ELSE BufLens

\* buf after inner.read(buf) returned rawN: the bytes the File yielded, then
\* what the buffer held before.
BufAfterRead(h, len, rawN) ==
    Take(source[h], rawN) \o [i \in 1..(len - Min(rawN, Len(source[h]))) |-> 0]

\* One call of inner.write(buf) / inner.read(buf) on an observed adapter:
\* the File takes or yields rawN bytes; the caller, told resN, advances by
\* resN.
Transfer(kind, h, len, rawN, resN) ==
    IF Observed(h) /\ kind = "write"
    THEN /\ sink' = [sink EXCEPT ![h] = @ \o Take(outbox[h], rawN)]
         /\ outbox' = [outbox EXCEPT ![h] = DropN(@, resN)]
         /\ UNCHANGED <<source, inbox>>
    ELSE IF Observed(h) /\ kind = "read"
    THEN /\ source' = [source EXCEPT ![h] = DropN(@, rawN)]
         /\ inbox' = [inbox EXCEPT ![h] = @ \o Take(BufAfterRead(h, len, rawN), resN)]
         /\ UNCHANGED <<outbox, sink>>
    ELSE UNCHANGED streams

\* The byte count of a call's result: nothing moves on an error.
CountOf(res) == IF res.tag = "ok" THEN res.val.n ELSE 0

\* ----------------------------------------------- the blocking collaborators
\* What one call of the ssh2::Sftp method `kind` can return.
SftpCall(t, kind) ==
    {Ok(IF kind \in OpenOps THEN [file |-> FreshFile] ELSE [reply |-> kind])}
    \cup {Err(Ssh2Error(c)) : c \in Ssh2Codes \ {"EAGAIN"}}
    \cup {Err(Ssh2Error(c)) : c \in IF wb[t] < MaxWouldBlock THEN {"EAGAIN"} ELSE {}}

\* What one call of ssh2::File::read / write (with a buffer of `len` bytes)
\* or flush can return: io::Result already.
FileCall(t, kind, h, len) ==
    {Ok([file |-> h, n |-> k]) : k \in IF kind = "flush" THEN {0} ELSE 0..len}
    \cup {Err(e) : e \in {x \in IoErrors : x.kind # "WouldBlock"}}
    \cup {Err(e) : e \in IF wb[t] < MaxWouldBlock
                           THEN {x \in IoErrors : x.kind = "WouldBlock"} ELSE {}}

\* ------------------------------------------------------- starting an operation
\* A task calls one of the async fns of AsyncSftp (&self: any number at once).
\* Nothing runs until the future is first polled.
StartSession(t, kind) ==
    /\ pc[t] = "idle"
    /\ sftp
    /\ kind \in SessionOps \cap OpsOf(t)
    /\ kind \in OpenOps => Cardinality(files) + Cardinality(OpensInFlight) < MaxHandles
    /\ pc' = [pc EXCEPT ![t] = "created"]
    /\ op' = [op EXCEPT ![t] = [kind |-> kind, target |-> SessionTarget]]
    /\ UNCHANGED <<woken, wakers, files, result, lastRaw>>
    /\ UNCHANGED counters
    /\ UNCHANGED others

\* A task starts read, write, flush or close on AsyncFile h, borrowing it
\* mutably until the operation resolves.
StartHandle(t, kind, h) ==
    /\ pc[t] = "idle"
    /\ kind \in HandleOps \cap OpsOf(t)
    /\ h \in files
    /\ ExclusiveBorrow(h)
    /\ pc' = [pc EXCEPT ![t] = "created"]
    /\ op' = [op EXCEPT ![t] = [kind |-> kind, target |-> h]]
    /\ UNCHANGED <<woken, wakers, files, result, lastRaw>>
    /\ UNCHANGED counters
    /\ UNCHANGED others

\* ------------------------------------------------------------ one poll: call
\* The executor polls a future it has not polled yet, or one whose waker
\* was invoked.
BeginPoll(t) ==
    /\ \/ pc[t] = "created"
       \/ pc[t] = "suspended" /\ woken[t] # "no"
    /\ woken' = [woken EXCEPT ![t] = "no"]
    /\ resumes' = [resumes EXCEPT ![t] = IF pc[t] = "suspended" THEN @ + 1 ELSE @]

\* Where the future goes after the closure returned `res`: to the readiness
\* wait on WouldBlock, to completion on anything else.
NextPc(res) == IF IsWouldBlock(res) THEN "registering" ELSE "done"

\* Mutant: the closure is invoked twice where it is invoked once.
AttemptTwice(t, raw, res) ==
    /\ calls' = [calls EXCEPT ![t] = @ + 2]
    /\ pollCalls' = [pollCalls EXCEPT ![t] = 2]
    /\ lastRaw' = [lastRaw EXCEPT ![t] = raw]
    /\ wb' = [wb EXCEPT ![t] = IF IsWouldBlock(res) THEN @ + 1 ELSE @]
    /\ pc' = [pc EXCEPT ![t] = NextPc(res)]

\* One invocation of the closure by task t: `raw` is what the blocking call
\* returned, `res` what the closure returned.
Attempt(t, raw, res) ==
    /\ calls' = [calls EXCEPT ![t] = @ + 1]
    /\ pollCalls' = [pollCalls EXCEPT ![t] = 1]
    /\ lastRaw' = [lastRaw EXCEPT ![t] = raw]
    /\ wb' = [wb EXCEPT ![t] = IF IsWouldBlock(res) THEN @ + 1 ELSE @]
    /\ pc' = [pc EXCEPT ![t] = NextPc(res)]

\* ret.and_then(|file| Ok(AsyncFile::from_parts(file, self.async_io.clone())))
AndThenFromParts(res) ==
    IF res.tag = "ok" THEN Ok([adapter |-> res.val.file]) ELSE res

\* Mutant: the blocking call is tried again at once after would-block,
\* inside the same poll, until it returns something else.
PollPlainSpin(t) ==
    /\ BeginPoll(t)
    /\ op[t].kind \in PlainOps
    /\ wakers' = RemoveWaker(wakers, "write", t)
    /\ \E raw \in SftpCall(t, op[t].kind) :
          LET res == MapErr(raw) IN
          /\ ~IsWouldBlock(res)
          /\ \E n \in 0..(MaxWouldBlock - wb[t]) :
                /\ calls' = [calls EXCEPT ![t] = @ + n + 1]
                /\ wb' = [wb EXCEPT ![t] = @ + n]
          /\ pollCalls' = [pollCalls EXCEPT ![t] = 1]
          /\ lastRaw' = [lastRaw EXCEPT ![t] = raw]
          /\ pc' = [pc EXCEPT ![t] = "done"]
          /\ result' = [result EXCEPT ![t] = res]
    /\ lastCall' = [lastCall EXCEPT ![t] = Forward(op[t].kind, CallerArgs(op[t].kind))]
    /\ UNCHANGED <<op, files, susp, pollBuf, callBuf>>
    /\ UNCHANGED <<adapters, streams>>

\* Mutant: a future polled again without a readiness event waits again
\* instead of trying the call.
PollPlainWaitAgain(t) ==
    /\ BeginPoll(t)
    /\ op[t].kind \in PlainOps
    /\ IF pc[t] = "suspended" /\ woken[t] = "other"
       THEN /\ pc' = [pc EXCEPT ![t] = "returning"]
            /\ UNCHANGED <<wakers, result, lastRaw, calls, wb, pollCalls, lastCall>>
       ELSE /\ wakers' = RemoveWaker(wakers, "write", t)
            /\ LET call == Forward(op[t].kind, CallerArgs(op[t].kind)) IN
                  /\ lastCall' = [lastCall EXCEPT ![t] = call]
                  /\ \E raw \in SftpCall(t, call.method) :
                        LET res == MapErr(raw) IN
                        /\ Attempt(t, raw, res)
                        /\ result' = [result EXCEPT ![t] =
                                         IF IsWouldBlock(res) THEN @ ELSE res]
    /\ UNCHANGED <<op, files, susp, pollBuf, callBuf>>
    /\ UNCHANGED <<adapters, streams>>

\* readdir .. unlink: write_with(|_| inner.<kind>(..).map_err(|err| err.into())).await
\* A re-polled future first lets go of the readiness future it was waiting on.
PollPlain(t) ==
    /\ BeginPoll(t)
    /\ op[t].kind \in PlainOps
    /\ wakers' = RemoveWaker(wakers, "write", t)
    /\ LET call == Forward(op[t].kind, CallerArgs(op[t].kind)) IN
          /\ lastCall' = [lastCall EXCEPT ![t] = call]
          /\ \E raw \in SftpCall(t, call.method) :
                LET res == MapErr(raw) IN
                /\ Attempt(t, raw, res)
                /\ result' = [result EXCEPT ![t] = IF IsWouldBlock(res) THEN @ ELSE res]
    /\ UNCHANGED <<op, files, susp, pollBuf, callBuf>>
    /\ UNCHANGED <<adapters, streams>>

\* Mutant: an adapter is made whatever the open call returned.
PollOpenAlways(t) ==
    /\ BeginPoll(t)
    /\ op[t].kind \in OpenOps
    /\ wakers' = RemoveWaker(wakers, "write", t)
    /\ LET call == Forward(op[t].kind, CallerArgs(op[t].kind)) IN
          /\ lastCall' = [lastCall EXCEPT ![t] = call]
          /\ \E raw \in SftpCall(t, call.method) :
                LET res == MapErr(raw) IN
                /\ Attempt(t, raw, res)
                /\ result' = [result EXCEPT ![t] =
                                 IF IsWouldBlock(res) THEN @
                                 ELSE Ok([adapter |-> FreshFile])]
                /\ files' = IF IsWouldBlock(res) THEN files ELSE files \cup {FreshFile}
                /\ inner' = IF res.tag = "ok" THEN inner \cup {res.val.file} ELSE inner
                /\ strong' = IF IsWouldBlock(res) THEN strong ELSE ArcClone(strong)
    /\ UNCHANGED <<op, susp, pollBuf, callBuf>>
    /\ UNCHANGED <<sftp, asyncIo>>
    /\ UNCHANGED streams

\* open_mode, open, create, opendir: as above, then the File is wrapped in a
\* new AsyncFile sharing the reactor handle.
PollOpen(t) ==
    /\ BeginPoll(t)
    /\ op[t].kind \in OpenOps
    /\ wakers' = RemoveWaker(wakers, "write", t)
    /\ LET call == Forward(op[t].kind, CallerArgs(op[t].kind)) IN
          /\ lastCall' = [lastCall EXCEPT ![t] = call]
          /\ \E raw \in SftpCall(t, call.method) :
                LET res == MapErr(raw) IN
                /\ Attempt(t, raw, res)
                /\ result' = [result EXCEPT ![t] =
                                 IF IsWouldBlock(res) THEN @ ELSE AndThenFromParts(res)]
                /\ files' = IF res.tag = "ok" THEN files \cup {res.val.file} ELSE files
                /\ inner' = IF res.tag = "ok" THEN inner \cup {res.val.file} ELSE inner
                /\ strong' = IF res.tag = "ok" THEN ArcClone(strong) ELSE strong
    /\ UNCHANGED <<op, susp, pollBuf, callBuf>>
    /\ UNCHANGED <<sftp, asyncIo>>
    /\ UNCHANGED streams

\* poll_once(cx, fut) on a future built for this poll alone: the closure is
\* called with the buffer the caller passed (pollLen), here as callLen.
HandlePoll(t, raw, pollLen, callLen) ==
    /\ BeginPoll(t)
    /\ Attempt(t, raw, raw)
    /\ result' = [result EXCEPT ![t] = IF IsWouldBlock(raw) THEN @ ELSE raw]
    /\ pollBuf' = [pollBuf EXCEPT ![t] = pollLen]
    /\ callBuf' = [callBuf EXCEPT ![t] = callLen]
    /\ Transfer(op[t].kind, op[t].target, callLen, CountOf(raw), CountOf(raw))
    /\ UNCHANGED <<op, wakers, files, susp>>
    /\ UNCHANGED <<adapters, lastCall>>

\* Mutant: poll_close closes the File and keeps the adapter.
PollCloseRelease(t) ==
    /\ op[t].kind = "close"
    /\ BeginPoll(t)
    /\ pc' = [pc EXCEPT ![t] = "done"]
    /\ result' = [result EXCEPT ![t] = Ok([unit |-> TRUE])]
    /\ inner' = inner \ {op[t].target}
    /\ UNCHANGED <<op, wakers, files, lastRaw>>
    /\ UNCHANGED <<calls, wb, susp, pollCalls, pollBuf, callBuf>>
    /\ UNCHANGED <<sftp, strong, asyncIo, lastCall>>
    /\ UNCHANGED streams

\* Mutant: poll_close forwards to a call on the File, as poll_flush does.
PollCloseInner(t) ==
    /\ op[t].kind = "close"
    /\ \E raw \in FileCall(t, "flush", op[t].target, 0) :
          HandlePoll(t, raw, 0, 0)

\* Mutant: poll_read waits for readiness before it tries the read.
PollReadReadinessFirst(t) ==
    /\ op[t].kind = "read"
    /\ BeginPoll(t)
    /\ pc' = [pc EXCEPT ![t] = "registering"]
    /\ \E len \in BufLens :
          /\ pollBuf' = [pollBuf EXCEPT ![t] = len]
          /\ callBuf' = [callBuf EXCEPT ![t] = len]
    /\ UNCHANGED <<op, wakers, files, result, lastRaw, calls, wb, susp, pollCalls>>
    /\ UNCHANGED others

\* poll_read: poll_once(cx, async_io.read_with(|_| inner.read(buf)))
PollRead(t) ==
    /\ op[t].kind = "read"
    /\ \E len \in ReadLens(op[t].target) :
          \E raw \in FileCall(t, "read", op[t].target, len) :
             HandlePoll(t, raw, len, len)

\* Mutant: poll_write asks the reactor for write readiness before it has
\* tried the write.
PollWriteRegisterFirst(t) ==
    /\ op[t].kind = "write"
    /\ BeginPoll(t)
    /\ \E len \in BufLens :
          \E raw \in FileCall(t, "write", op[t].target, len) :
             /\ Attempt(t, raw, raw)
             /\ result' = [result EXCEPT ![t] = IF IsWouldBlock(raw) THEN @ ELSE raw]
             /\ pollBuf' = [pollBuf EXCEPT ![t] = len]
             /\ callBuf' = [callBuf EXCEPT ![t] = len]
    /\ wakers' = AddWaker(wakers, "write", t)
    /\ UNCHANGED <<op, files, susp>>
    /\ UNCHANGED others

\* Mutant: poll_write reports the whole buffer as written whenever the write
\* succeeds.
PollWriteFullCount(t) ==
    /\ op[t].kind = "write"
    /\ BeginPoll(t)
    /\ \E len \in WriteLens(op[t].target) :
          \E raw \in FileCall(t, "write", op[t].target, len) :
             LET res == IF raw.tag = "ok" THEN Ok([file |-> raw.val.file, n |-> len])
                                          ELSE raw IN
             /\ Attempt(t, raw, res)
             /\ result' = [result EXCEPT ![t] = IF IsWouldBlock(res) THEN @ ELSE res]
             /\ pollBuf' = [pollBuf EXCEPT ![t] = len]
             /\ callBuf' = [callBuf EXCEPT ![t] = len]
             /\ Transfer("write", op[t].target, len, CountOf(raw), CountOf(res))
    /\ UNCHANGED <<op, wakers, files, susp>>
    /\ UNCHANGED <<adapters, lastCall>>

\* poll_write: poll_once(cx, async_io.write_with(|_| inner.write(buf)))
PollWrite(t) ==
    /\ op[t].kind = "write"
    /\ \E len \in WriteLens(op[t].target) :
          \E raw \in FileCall(t, "write", op[t].target, len) :
             HandlePoll(t, raw, len, len)

\* poll_flush: poll_once(cx, async_io.write_with(|_| inner.flush()))
PollFlush(t) ==
    /\ op[t].kind = "flush"
    /\ \E raw \in FileCall(t, "flush", op[t].target, 0) :
          HandlePoll(t, raw, 0, 0)

\* poll_close: poll_once(cx, async_io.write_with(|_| Ok(()))): the closure
\* returns Ok(()) without touching the File.
PollClose(t) ==
    /\ op[t].kind = "close"
    /\ BeginPoll(t)
    /\ pc' = [pc EXCEPT ![t] = "done"]
    /\ result' = [result EXCEPT ![t] = Ok([unit |-> TRUE])]
    /\ UNCHANGED <<op, wakers, files, lastRaw>>
    /\ UNCHANGED <<calls, wb, susp, pollCalls, pollBuf, callBuf>>
    /\ UNCHANGED others

\* ------------------------------------------- one poll: register and return
\* After WouldBlock the future polls the reactor's readiness future, which
\* stores the waker for the operation's direction.
Register(t) ==
    /\ pc[t] = "registering"
    /\ wakers' = AddWaker(wakers, DirOf(op[t].kind), t)
    /\ pc' = [pc EXCEPT ![t] = "returning"]
    /\ UNCHANGED <<op, woken, files, result, lastRaw>>
    /\ UNCHANGED counters
    /\ UNCHANGED others

\* The readiness future resolves with an I/O error of the reactor instead:
\* the operation ends with it.
RegisterFail(t) ==
    /\ pc[t] = "registering"
    /\ pc' = [pc EXCEPT ![t] = "done"]
    /\ result' = [result EXCEPT ![t] = Err(ReactorError)]
    /\ UNCHANGED <<op, woken, wakers, files, lastRaw>>
    /\ UNCHANGED counters
    /\ UNCHANGED others

\* Mutant: AsyncFile's readiness future outlives the poll.
WakersAtReturnKeep(t) == wakers

\* What is left with the reactor when the poll returns Pending: an awaited
\* session future keeps its readiness future; AsyncFile's future was moved
\* into poll_once and is dropped before poll_read / poll_write / poll_flush
\* returns.
WakersAtReturn(t) ==
    IF IsHandleOp(t) THEN RemoveWaker(wakers, DirOf(op[t].kind), t) ELSE wakers

\* Mutant: the adapter remembers the buffer of the poll that returned Pending.
ReturnPendingKeepBuf(t) ==
    /\ pc[t] = "returning"
    /\ pc' = [pc EXCEPT ![t] = "suspended"]
    /\ susp' = [susp EXCEPT ![t] = @ + 1]
    /\ wakers' = WakersAtReturn(t)
    /\ UNCHANGED <<op, woken, files, result, lastRaw>>
    /\ UNCHANGED <<calls, wb, resumes, pollCalls, pollBuf, callBuf>>
    /\ UNCHANGED others

\* The poll returns Poll::Pending: the task is suspended, and the borrow of
\* the caller's buffer ends with the poll.
ReturnPending(t) ==
    /\ pc[t] = "returning"
    /\ pc' = [pc EXCEPT ![t] = "suspended"]
    /\ susp' = [susp EXCEPT ![t] = @ + 1]
    /\ wakers' = WakersAtReturn(t)
    /\ pollBuf' = [pollBuf EXCEPT ![t] = 0]
    /\ callBuf' = [callBuf EXCEPT ![t] = 0]
    /\ UNCHANGED <<op, woken, files, result, lastRaw>>
    /\ UNCHANGED <<calls, wb, resumes, pollCalls>>
    /\ UNCHANGED others

\* ---------------------------------------------------- executor and caller
\* The task's waker is invoked by something other than the reactor (the
\* Future contract allows polls without a readiness event).
SpuriousWake(t) ==
    /\ pc[t] = "suspended"
    /\ woken[t] = "no"
    /\ woken' = [woken EXCEPT ![t] = "other"]
    /\ UNCHANGED <<pc, op, wakers, files, result, lastRaw>>
    /\ UNCHANGED counters
    /\ UNCHANGED others

\* The caller takes the resolved value, or is through with the future it
\* dropped; the task is free for its next call.
Finish(t) ==
    /\ pc[t] \in {"done", "cancelled"}
    /\ pc' = [pc EXCEPT ![t] = "idle"]
    /\ op' = [op EXCEPT ![t] = NoOp]
    /\ woken' = [woken EXCEPT ![t] = "no"]
    /\ result' = [result EXCEPT ![t] = None]
    /\ lastRaw' = [lastRaw EXCEPT ![t] = None]
    /\ calls' = [calls EXCEPT ![t] = 0]
    /\ wb' = [wb EXCEPT ![t] = 0]
    /\ susp' = [susp EXCEPT ![t] = 0]
    /\ resumes' = [resumes EXCEPT ![t] = 0]
    /\ pollCalls' = [pollCalls EXCEPT ![t] = 0]
    /\ pollBuf' = [pollBuf EXCEPT ![t] = 0]
    /\ callBuf' = [callBuf EXCEPT ![t] = 0]
    /\ lastCall' = [lastCall EXCEPT ![t] = NoCall]
    /\ UNCHANGED <<wakers, files>>
    /\ UNCHANGED <<adapters, streams>>

\* An AsyncFile no operation borrows is dropped.  The numbers of the
\* adapters are names only and the adapters are alike, so the model keeps the
\* live ones numbered 1..k and drops number k: dropping another one is this
\* step with the names exchanged.
DropFile(h) ==
    /\ h \in files
    /\ \A g \in files : g <= h
    /\ ExclusiveBorrow(h)
    /\ files' = files \ {h}
    /\ inner' = inner \ {h}
    /\ strong' = ArcDrop(strong)
    /\ asyncIo' = AfterDrop(strong', asyncIo)
    /\ UNCHANGED <<pc, op, woken, wakers, result, lastRaw>>
    /\ UNCHANGED counters
    /\ UNCHANGED <<sftp, lastCall>>
    /\ UNCHANGED streams

\* The AsyncSftp is dropped: no future of its async fns borrows it any more.
\* Taking the value of a resolved future is a step of the caller alone, so
\* the model lets the caller take it before it drops the adapter.
DropSftp ==
    /\ sftp
    /\ \A t \in Tasks : ~IsSessionOp(t)
    /\ sftp' = FALSE
    /\ strong' = ArcDrop(strong)
    /\ asyncIo' = AfterDrop(strong', asyncIo)
    /\ UNCHANGED <<pc, op, woken, wakers, files, result, lastRaw>>
    /\ UNCHANGED counters
    /\ UNCHANGED <<inner, lastCall>>
    /\ UNCHANGED streams

\* Mutant: the registration of a dropped operation stays with the reactor.
WakersAtDropKeep(t) == wakers

\* What is left with the reactor when the future of an operation is dropped:
\* the readiness future it holds is dropped with it.
WakersAtDrop(t) == RemoveWaker(wakers, DirOf(op[t].kind), t)

\* The caller drops the future of a suspended operation (a future never
\* polled has called nothing and holds nothing: dropping it is not starting
\* it).  The closure goes with the future.
Cancel(t) ==
    /\ pc[t] = "suspended"
    /\ pc' = [pc EXCEPT ![t] = "cancelled"]
    /\ woken' = [woken EXCEPT ![t] = "no"]
    /\ wakers' = WakersAtDrop(t)
    /\ UNCHANGED <<op, files, result, lastRaw>>
    /\ UNCHANGED counters
    /\ UNCHANGED others

\* ------------------------------------------------- transport and reactor
\* The transport is ready for d and the reactor sees it: it takes every
\* waker stored for d and wakes it.  With no waker stored the reactor has no
\* interest registered and the readiness stays with the transport.
ReactorDeliver(d) ==
    /\ \E t \in Tasks : wakers[d][t] > 0
    /\ woken' = [t \in Tasks |-> IF wakers[d][t] > 0 THEN "reactor" ELSE woken[t]]
    /\ wakers' = [wakers EXCEPT ![d] = [t \in Tasks |-> 0]]
    /\ UNCHANGED <<pc, op, files, result, lastRaw>>
    /\ UNCHANGED counters
    /\ UNCHANGED others

\* ------------------------------------------------------------ specification
PollStep(t) ==
    \/ PollPlain(t)
    \/ PollOpen(t)
    \/ PollRead(t)
    \/ PollWrite(t)
    \/ PollFlush(t)
    \/ PollClose(t)
    \/ Register(t)
    \/ RegisterFail(t)
    \/ ReturnPending(t)

Next ==
    \/ \E t \in Tasks, kind \in SessionOps : StartSession(t, kind)
    \/ \E t \in Tasks, kind \in HandleOps, h \in Handles : StartHandle(t, kind, h)
    \/ \E t \in Tasks : PollPlain(t)
    \/ \E t \in Tasks : PollOpen(t)
    \/ \E t \in Tasks : PollRead(t)
    \/ \E t \in Tasks : PollWrite(t)
    \/ \E t \in Tasks : PollFlush(t)
    \/ \E t \in Tasks : PollClose(t)
    \/ \E t \in Tasks : Register(t)
    \/ \E t \in Tasks : RegisterFail(t)
    \/ \E t \in Tasks : ReturnPending(t)
    \/ \E t \in Tasks : SpuriousWake(t)
    \/ \E t \in Tasks : Finish(t)
    \/ \E t \in Tasks : Cancel(t)
    \/ \E h \in Handles : DropFile(h)
    \/ DropSftp
    \/ \E d \in Dirs : ReactorDeliver(d)

Spec == Init /\ [][Next]_vars

\* The executor polls a task that can be polled and the reactor delivers a
\* readiness event it can deliver; nothing obliges a caller to start or take
\* anything, or a spurious wake to happen.
FairSpec ==
    /\ Spec
    /\ \A t \in Tasks : WF_vars(PollStep(t))
    /\ \A d \in Dirs : WF_vars(ReactorDeliver(d))

\* ------------------------------------------------- byte-stream specification
\* One adapter is open; its caller has Content to write through it and
\* Content to read through it, and passes what is left at every call.
IoInit ==
    /\ pc = [t \in Tasks |-> "idle"]
    /\ op = [t \in Tasks |-> NoOp]
    /\ woken = [t \in Tasks |-> "no"]
    /\ wakers = [d \in Dirs |-> [t \in Tasks |-> 0]]
    /\ files = {1}
    /\ result = [t \in Tasks |-> None]
    /\ lastRaw = [t \in Tasks |-> None]
    /\ calls = [t \in Tasks |-> 0]
    /\ wb = [t \in Tasks |-> 0]
    /\ susp = [t \in Tasks |-> 0]
    /\ resumes = [t \in Tasks |-> 0]
    /\ pollCalls = [t \in Tasks |-> 0]
    /\ pollBuf = [t \in Tasks |-> 0]
    /\ callBuf = [t \in Tasks |-> 0]
    /\ inner = {1}
    /\ sftp = TRUE
    /\ strong = 2
    /\ asyncIo = "alive"
    /\ lastCall = [t \in Tasks |-> NoCall]
    /\ outbox = [h \in Handles |-> IF h = 1 THEN Content ELSE <<>>]
    /\ sink = NoBytes
    /\ source = [h \in Handles |-> IF h = 1 THEN Content ELSE <<>>]
    /\ inbox = NoBytes

\* The callers read and write, again after every result, with would-block,
\* wakes, reactor errors and dropped futures in between.
IoNext ==
    \/ \E t \in Tasks, kind \in {"read", "write"}, h \in Handles : StartHandle(t, kind, h)
    \/ \E t \in Tasks : PollRead(t)
    \/ \E t \in Tasks : PollWrite(t)
    \/ \E t \in Tasks : Register(t)
    \/ \E t \in Tasks : RegisterFail(t)
    \/ \E t \in Tasks : ReturnPending(t)
    \/ \E t \in Tasks : SpuriousWake(t)
    \/ \E t \in Tasks : Cancel(t)
    \/ \E t \in Tasks : Finish(t)
    \/ \E d \in Dirs : ReactorDeliver(d)

IoSpec == IoInit /\ [][IoNext]_vars

TypeOK ==
    /\ pc \in [Tasks -> {"idle", "created", "registering", "returning",
                         "suspended", "done", "cancelled"}]
    /\ files \subseteq Handles
    /\ inner \subseteq Handles
    /\ sftp \in BOOLEAN
    /\ strong \in 0..(MaxHandles + 1)
    /\ asyncIo \in {"alive", "released"}
    /\ \A t \in Tasks : calls[t] <= MaxWouldBlock + 1

\* ================================================================ claims
RECURSIVE SumOver(_, _)
SumOver(f, S) ==
    IF S = {} THEN 0
    ELSE LET x == CHOOSE y \in S : TRUE IN f[x] + SumOver(f, S \ {x})

\* The wakers the reactor holds for direction d.
Registrations(d) == SumOver(wakers[d], Tasks)

\* The blocking call attempt reported would-block (libssh2's EAGAIN for the
\* session, io::ErrorKind::WouldBlock for the file).
RawWouldBlock(raw) ==
    /\ raw.tag = "err"
    /\ \/ "code" \in DOMAIN raw.err /\ raw.err.code = "EAGAIN"
       \/ "kind" \in DOMAIN raw.err /\ raw.err.kind = "WouldBlock"

\* What the caller is to get for the successful blocking result `raw`.
Delivered(kind, raw) ==
    IF kind \in OpenOps THEN Ok([adapter |-> raw.val.file]) ELSE raw

\* C1: for every session operation and for read, write and flush: once the
\* blocking call succeeds after N would-block results, the operation is
\* complete with that very result, and the task was suspended (a poll returned
\* Pending) and resumed at least N times; N + 1 attempts were made in all.
C1_WouldBlockThenResult ==
    \A t \in Tasks :
        lastRaw[t].tag = "ok" =>
            /\ pc[t] = "done"
            /\ result[t] = Delivered(op[t].kind, lastRaw[t])
            /\ susp[t] >= wb[t]
            /\ resumes[t] >= wb[t]
            /\ calls[t] = wb[t] + 1

\* A session operation and a handle read have both succeeded after as many
\* would-block results as the model allows.
C1_Witness ==
    \E t, u \in Tasks :
        /\ pc[t] = "done" /\ IsSessionOp(t) /\ lastRaw[t].tag = "ok"
        /\ wb[t] = MaxWouldBlock /\ susp[t] = MaxWouldBlock
        /\ pc[u] = "done" /\ op[u].kind = "read" /\ lastRaw[u].tag = "ok"
        /\ wb[u] = MaxWouldBlock /\ susp[u] = MaxWouldBlock

\* C2: no missed wakeup: an operation that found the transport not ready and
\* has returned Pending, and that nobody has woken since, has its waker
\* stored with the reactor for its direction, so that a readiness event
\* arriving from then on wakes the task and the operation is driven again.
C2_NoMissedWakeup ==
    \A t \in Tasks :
        (pc[t] = "suspended" /\ woken[t] = "no") =>
            wakers[DirOf(op[t].kind)][t] > 0

\* C3 as stated: over the session adapter and all handle adapters, the
\* reactor holds at most one registration per direction.
C3_OnePerDirection == \A d \in Dirs : Registrations(d) <= 1

\* C3 as amended: every operation holds at most one registration, only for
\* the direction of its kind, only after a would-block of its own and while
\* it is in flight; a handle operation holds one only inside the poll.
C3_OnePerOperation ==
    \A t \in Tasks :
        /\ wakers["read"][t] + wakers["write"][t] <= 1
        /\ \A d \in Dirs :
              wakers[d][t] > 0 =>
                  /\ d = DirOf(op[t].kind)
                  /\ wb[t] >= 1
                  /\ pc[t] \in {"returning", "suspended"}
                  /\ IsHandleOp(t) => pc[t] = "returning"
        /\ \A d \in Dirs :
              Registrations(d) <=
                  Cardinality({u \in Tasks : InFlight(u) /\ DirOf(op[u].kind) = d})

\* Two operations are registered for write readiness at once.
C3_Witness == Registrations("write") = 2

\* C4 as stated: a resolved session operation made exactly one blocking call.
C4_ExactlyOneCall ==
    \A t \in Tasks : (IsSessionOp(t) /\ pc[t] = "done") => calls[t] = 1

\* C4 as amended: a session operation makes one blocking call per would-block
\* result it received plus, unless the reactor failed, exactly one more, the
\* last, whose result resolves it.
C4_OneCallPerWouldBlockPlusOne ==
    \A t \in Tasks :
        IsSessionOp(t) =>
            /\ (pc[t] = "done" /\ result[t] # Err(ReactorError)) => calls[t] = wb[t] + 1
            /\ (pc[t] # "done" \/ result[t] = Err(ReactorError)) => calls[t] = wb[t]
            /\ pc[t] = "created" => calls[t] = 0

\* A session operation resolved on its second blocking call.
C4_Witness ==
    \E t \in Tasks :
        IsSessionOp(t) /\ pc[t] = "done" /\ calls[t] = 2 /\ lastRaw[t].tag = "ok"

\* C5: every poll of read (resp. write) makes exactly one call of the file's
\* read (resp. write), with the buffer the caller passed to that poll,
\* whether the poll ends Ready or Pending.
C5_OneCallPerPoll ==
    \A t \in Tasks :
        (op[t].kind \in {"read", "write"} /\ pc[t] \notin {"idle", "created"}) =>
            /\ pollCalls[t] = 1
            /\ calls[t] = resumes[t] + 1
            /\ pc[t] \in {"registering", "returning", "done"} =>
                  /\ pollBuf[t] \in BufLens
                  /\ callBuf[t] = pollBuf[t]

\* A read has been polled twice, the second poll ending Ready, and a write
\* has been polled once, ending Pending.
C5_Witness ==
    \E t, u \in Tasks :
        /\ op[t].kind = "read" /\ pc[t] = "done" /\ resumes[t] = 1 /\ calls[t] = 2
        /\ op[u].kind = "write" /\ pc[u] = "suspended" /\ calls[u] = 1

C7_WouldBlockNeverDelivered ==
    \A t \in Tasks :
        /\ pc[t] = "done" =>
              /\ ~(result[t].tag = "err" /\ result[t].err.kind = "WouldBlock")
              /\ RawWouldBlock(lastRaw[t]) => result[t] = Err(ReactorError)
        /\ (RawWouldBlock(lastRaw[t]) /\ pc[t] # "done") =>
              /\ result[t] = None
              /\ pc[t] \in {"registering", "returning", "suspended", "cancelled"}

\* An operation that received would-block has resolved with a result, and
\* another one is pending after would-block.
C7_Witness ==
    \E t, u \in Tasks :
        /\ pc[t] = "done" /\ wb[t] >= 1 /\ result[t].tag = "ok"
        /\ pc[u] = "suspended" /\ RawWouldBlock(lastRaw[u])

TwoHandlesBusy ==
    \E t, u \in Tasks :
        /\ InFlight(t) /\ IsHandleOp(t)
        /\ InFlight(u) /\ IsHandleOp(u)
        /\ op[t].target # op[u].target

\* C10: two operations in flight on two different handle adapters sharing
\* the reactor handle both resolve eventually.
C10_BothComplete ==
    \A t \in Tasks : (TwoHandlesBusy /\ InFlight(t)) ~> (pc[t] = "done")

\* C11: cancellation: when the future of an in-flight operation is dropped
\* before it resolves, no registration or waker of that operation is left
\* with the reactor, the task is not woken for it, and its blocking closure
\* is not invoked again.
C11_CancelAbandons ==
    [][\A t \in Tasks :
          /\ pc'[t] = "cancelled" =>
                /\ \A d \in Dirs : wakers'[d][t] = 0
                /\ woken'[t] = "no"
          /\ pc[t] = "cancelled" =>
                /\ pc'[t] \in {"cancelled", "idle"}
                /\ calls'[t] <= calls[t]
                /\ lastCall'[t] \in {lastCall[t], NoCall}]_vars

\* A session operation that was registered for write readiness and a handle
\* read have both been dropped after a would-block.
C11_Witness ==
    \E t, u \in Tasks :
        /\ pc[t] = "cancelled" /\ IsSessionOp(t) /\ wb[t] >= 1
        /\ pc[u] = "cancelled" /\ op[u].kind = "read" /\ wb[u] >= 1

\* C12: close on a handle adapter completes with success in its first poll,
\* whatever the transport and the File are doing; it calls nothing on the
\* File and registers nothing; the adapter, the File and the Arc are as
\* before.
C12_CloseIsNoOp ==
    [][\A t \in Tasks :
          /\ op'[t].kind = "close" => pc'[t] \in {"created", "done"}
          /\ (op[t].kind = "close" /\ pc[t] = "created" /\ pc'[t] # "created") =>
                /\ pc'[t] = "done"
                /\ result'[t] = Ok([unit |-> TRUE])
                /\ calls'[t] = 0
                /\ lastRaw'[t] = None
                /\ wakers' = wakers
                /\ files' = files
                /\ inner' = inner
                /\ strong' = strong
                /\ UNCHANGED streams]_vars

\* A close has completed on one adapter while a read on another adapter is
\* suspended after a would-block of the transport.
C12_Witness ==
    \E t, u \in Tasks :
        /\ op[t].kind = "close" /\ pc[t] = "done" /\ op[t].target \in files
        /\ op[u].kind = "read" /\ pc[u] = "suspended" /\ op[u].target # op[t].target

\* C13: the File of a handle adapter is released exactly at the drop of the
\* adapter: it is open for every live adapter, whatever close calls were
\* made; it goes when and only when the adapter goes; and every call that
\* read, write or flush makes is made on the open File of its adapter.
C13_ReleasedAtDrop ==
    [][/\ inner' = files'
       /\ \A h \in Handles :
             (h \in inner /\ h \notin inner') <=> (h \in files /\ h \notin files')
       /\ \A t \in Tasks :
             (IsHandleOp(t) /\ calls'[t] > calls[t]) =>
                 /\ op[t].target \in inner
                 /\ op[t].target \in inner'
                 /\ lastRaw'[t].tag = "ok" => lastRaw'[t].val.file = op[t].target]_vars

\* A close has completed on an adapter and a read started afterwards on the
\* same adapter has called its File, which is still open.
C13_Witness ==
    \E t, u \in Tasks :
        /\ op[t].kind = "close" /\ pc[t] = "done"
        /\ op[u].kind = "read" /\ op[u].target = op[t].target
        /\ pc[u] = "suspended" /\ calls[u] >= 1
        /\ op[t].target \in inner

\* C14: readiness direction: a registration for read readiness belongs to a
\* handle read, a registration for write readiness to a session operation or
\* to a handle write or flush; no operation is ever registered for the other
\* direction.
C14_Direction ==
    \A t \in Tasks :
        /\ wakers["read"][t] > 0 => op[t].kind = "read"
        /\ wakers["write"][t] > 0 => op[t].kind \in SessionOps \cup {"write", "flush"}

\* A handle read is registered for read readiness while a handle write or
\* flush is registered for write readiness.
C14_Witness ==
    \E t, u \in Tasks :
        /\ op[t].kind = "read" /\ wakers["read"][t] = 1
        /\ op[u].kind \in {"write", "flush"} /\ wakers["write"][u] = 1

\* The adapters that hold the Arc<Async<S>>.
Holders == (IF sftp THEN 1 ELSE 0) + Cardinality(files)

\* C15: the strong count of the Arc<Async<S>> is 1 for a live AsyncSftp plus
\* one for every live AsyncFile made from it; the Async<S> is released
\* exactly when the count reaches zero, so it is alive for every live
\* AsyncFile, also after the AsyncSftp was dropped.
C15_HoldersCounted ==
    /\ strong = Holders
    /\ asyncIo = "released" <=> Holders = 0
    /\ files # {} => asyncIo = "alive"

\* The AsyncSftp has been dropped, as many adapters as the model allows are
\* alive, and an operation is running on one of them.
C15_Witness ==
    /\ ~sftp
    /\ Cardinality(files) = MaxHandles
    /\ asyncIo = "alive"
    /\ \E t \in Tasks : IsHandleOp(t) /\ pc[t] = "returning"

\* C16: one-to-one forwarding: every blocking call attempt of a session
\* operation, the retries after would-block included, is the Sftp method of
\* the same name with the arguments the caller passed, each in its place
\* (setstat with an equal copy of the FileStat); a successful attempt answers
\* for that method, and the operation resolves with the outcome of its last
\* attempt.
C16_OneToOne ==
    \A t \in Tasks :
        (IsSessionOp(t) /\ calls[t] >= 1) =>
            /\ lastCall[t].method = op[t].kind
            /\ lastCall[t].args = CallerArgs(op[t].kind)
            /\ op[t].kind = "setstat" => lastCall[t].args[2] = FileStat
            /\ (lastRaw[t].tag = "ok" /\ op[t].kind \in PlainOps) =>
                  lastRaw[t].val.reply = op[t].kind
            /\ (pc[t] = "done" /\ ~RawWouldBlock(lastRaw[t])) =>
                  result[t] = IF lastRaw[t].tag = "ok"
                              THEN Delivered(op[t].kind, lastRaw[t])
                              ELSE Err(IntoIoError(lastRaw[t].err))

\* A setstat has resolved on its second attempt, after a would-block.
C16_Witness ==
    \E t \in Tasks :
        /\ op[t].kind = "setstat" /\ pc[t] = "done"
        /\ calls[t] = 2 /\ wb[t] = 1 /\ lastRaw[t].tag = "ok"

\* C17: partial I/O: read and write return the byte count the File reported,
\* so over any sequence of short counts, would-block results, errors and
\* dropped futures the bytes the File accepted followed by the bytes still
\* to write are the content, and so are the bytes read followed by the bytes
\* the File has still to yield: no byte is lost, doubled or out of place.
C17_ByteStream ==
    /\ \A t \in Tasks :
          (op[t].kind \in {"read", "write"} /\ pc[t] = "done" /\ lastRaw[t].tag = "ok") =>
              /\ result[t].tag = "ok"
              /\ result[t].val.n = lastRaw[t].val.n
    /\ \A h \in Handles :
          Observed(h) =>
              /\ sink[h] \o outbox[h] = Content
              /\ inbox[h] \o source[h] = Content

\* Both transfers are complete, and the write that completed its transfer
\* was made with a part of the content only, after a short count, and went
\* through a would-block.
C17_Witness ==
    /\ outbox[1] = <<>> /\ sink[1] = Content
    /\ source[1] = <<>> /\ inbox[1] = Content
    /\ \E t \in Tasks :
          /\ op[t].kind = "write" /\ pc[t] = "done" /\ wb[t] >= 1
          /\ callBuf[t] >= 1 /\ callBuf[t] < Len(Content)
          /\ result[t] = Ok([file |-> 1, n |-> callBuf[t]])

\* C18: an invocation is suspended at most once per retry: every poll after
\* a suspension makes the next blocking call attempt, so between two
\* consecutive attempts there is one suspension, and the suspensions of an
\* invocation never outnumber the would-block results it received.
C18_OneSuspensionPerRetry ==
    \A t \in Tasks :
        /\ susp[t] <= wb[t]
        /\ resumes[t] <= susp[t]
        /\ susp[t] <= resumes[t] + 1
        /\ (op[t].kind # "close" /\ pc[t] \notin {"idle", "created"}) =>
              calls[t] = resumes[t] + 1

\* A session operation has resolved after as many suspensions as the model
\* allows would-block results, while a flush is suspended after its own.
C18_Witness ==
    \E t, u \in Tasks :
        /\ IsSessionOp(t) /\ pc[t] = "done"
        /\ susp[t] = MaxWouldBlock /\ resumes[t] = MaxWouldBlock
        /\ op[u].kind = "flush" /\ pc[u] = "suspended" /\ susp[u] = wb[u]

\* C19: an AsyncFile appears only in the step in which an open-family
\* operation resolves with the File its blocking call returned; when the
\* blocking call fails the operation returns the error, and the adapters, the
\* Files, the Arc count and the AsyncSftp are as before.
C19_AdapterOnlyFromOpen ==
    [][/\ \A h \in Handles :
             (h \notin files /\ h \in files') =>
                 \E t \in Tasks :
                     /\ op[t].kind \in OpenOps
                     /\ calls'[t] = calls[t] + 1
                     /\ lastRaw'[t] = Ok([file |-> h])
                     /\ pc'[t] = "done"
                     /\ result'[t] = Ok([adapter |-> h])
                     /\ strong' = strong + 1
       /\ \A t \in Tasks :
             (op[t].kind \in OpenOps /\ calls'[t] > calls[t] /\ lastRaw'[t].tag = "err") =>
                 /\ files' = files
                 /\ inner' = inner
                 /\ strong' = strong
                 /\ sftp' = sftp
                 /\ ~RawWouldBlock(lastRaw'[t]) =>
                       /\ pc'[t] = "done"
                       /\ result'[t] = Err(IntoIoError(lastRaw'[t].err))]_vars

\* One open-family operation has failed and another has returned an adapter.
C19_Witness ==
    \E t, u \in Tasks :
        /\ op[t].kind \in OpenOps /\ pc[t] = "done" /\ result[t].tag = "err"
        /\ lastRaw[t].tag = "err" /\ ~RawWouldBlock(lastRaw[t])
        /\ op[u].kind \in OpenOps /\ pc[u] = "done" /\ result[u].tag = "ok"
        /\ result[u].val.adapter \in files

\* C20: the handle adapter keeps nothing of an operation between polls: a
\* handle operation suspended by a Pending poll has no readiness future (no
\* registration) and no buffer left; no step of a handle operation changes
\* the adapter's fields; and the poll that resumes it makes a blocking call
\* attempt of its own with the buffer passed to that poll.
C20_NoStateBetweenPolls ==
    [][\A t \in Tasks :
          /\ (IsHandleOp(t) /\ pc'[t] = "suspended") =>
                /\ \A d \in Dirs : wakers'[d][t] = 0
                /\ pollBuf'[t] = 0
                /\ callBuf'[t] = 0
          /\ (IsHandleOp(t) /\ pc'[t] # pc[t] /\ pc[t] # "idle") =>
                /\ files' = files
                /\ inner' = inner
                /\ strong' = strong
                /\ asyncIo' = asyncIo
          /\ (IsHandleOp(t) /\ pc[t] = "suspended" /\ pc'[t] \notin {"suspended", "cancelled"}) =>
                /\ calls'[t] = calls[t] + 1
                /\ pollCalls'[t] = 1
                /\ callBuf'[t] = pollBuf'[t]
                /\ op[t].kind \in {"read", "write"} => pollBuf'[t] \in BufLens]_vars

\* A read that was suspended by a Pending poll has been polled again and has
\* resolved with what its second call returned.
C20_Witness ==
    \E t \in Tasks :
        /\ op[t].kind = "read" /\ pc[t] = "done"
        /\ susp[t] = 1 /\ resumes[t] = 1 /\ calls[t] = 2
        /\ lastRaw[t].tag = "ok"

====
